---- MODULE Spec2Model ----
(***************************************************************************)
(* Model of backend/pdf_functions.py: a collection of PDF utility          *)
(* functions.  Every function opens a document, transforms its page list   *)
(* and saves.  A document is the sequence of its pages; the disk is the    *)
(* set of files written by the call.  Each action is one complete call.    *)
(***************************************************************************)
EXTENDS Integers, Sequences, FiniteSets, TLC

VARIABLES op, args, src, result, error, disk, returned, calls

vars == <<op, args, src, result, error, disk, returned, calls>>

\* ---------------------------------------------------------------- bounds
MaxPages == 5      \* pages of an input document
MaxList == 2       \* length of a page-number list argument
MaxRanges == 2     \* length of page_ranges
MaxInputs == 3     \* length of input_pdfs
MaxGrid == 3       \* n_cols, n_rows
MaxChunk == 4      \* pages_per_split
MaxRangeIdx == 3   \* largest start / end offered to a page range

\* ------------------------------------------------------------- documents
\* A4 in points, as used by create_nup for the output sheet.
A4Short == 595
A4Long == 842

Rotations == {90, 180, 270, -90, -180, -270}

\* Page `num` (1-based) of input document `d`.  In the "mixed" layout the
\* pages carry different rotations and sizes, in "upright" all are alike.
MkPage(d, num, layout) ==
    [doc |-> d, num |-> num,
     rot |-> IF layout = "mixed" THEN 90 * (num % 4) ELSE 0,
     w |-> IF layout = "mixed" /\ num % 2 = 0 THEN A4Long ELSE A4Short,
     h |-> IF layout = "mixed" /\ num % 2 = 0 THEN A4Short ELSE A4Long,
     overlay |-> <<>>]

MkDoc(d, k, layout) == [i \in 1..k |-> MkPage(d, i, layout)]

Layouts == {"upright", "mixed"}

Docs == {MkDoc(1, k, l) : k \in 1..MaxPages, l \in Layouts}

\* Sequences over S of length at most n.
SeqUpTo(S, n) == UNION {[1..m -> S] : m \in 0..n}

\* ------------------------------------------------------- python builtins
\* range(start, stop, step) for step >= 1
RECURSIVE Range(_, _, _)
Range(start, stop, step) ==
    IF start >= stop THEN <<>> ELSE <<start>> \o Range(start + step, stop, step)

Min(a, b) == IF a < b THEN a ELSE b
Max(a, b) == IF a > b THEN a ELSE b

\* insert x into the descending list s
RECURSIVE InsertDesc(_, _)
InsertDesc(x, s) ==
    IF s = <<>> THEN <<x>>
    ELSE IF x >= Head(s) THEN <<x>> \o s
    ELSE <<Head(s)>> \o InsertDesc(x, Tail(s))

\* sorted(s, reverse=True)
RECURSIVE SortedReverse(_)
SortedReverse(s) ==
    IF s = <<>> THEN <<>> ELSE InsertDesc(Head(s), SortedReverse(Tail(s)))

\* [p - 1 for p in pages]
ZeroBased(pages) == [i \in 1..Len(pages) |-> pages[i] - 1]

\* ---------------------------------------------------------- the library
\* Outcome of a call: what it left on disk, what it returned, how it ended.
Ok(d, ret) == [status |-> "ok", error |-> "", disk |-> d, ret |-> ret]
Raised(d, e) == [status |-> "raised", error |-> e, disk |-> d, ret |-> <<>>]

OutPath == [kind |-> "output_pdf", num |-> 0]

\* save flags of Document.save() when none are passed
DefaultFlags ==
    [garbage |-> 0, deflate |-> FALSE, deflate_images |-> FALSE,
     deflate_fonts |-> FALSE, clean |-> FALSE]

\* writing a file replaces whatever was at the path
DiskWrite(d, path, pages, flags) ==
    {f \in d : f.path # path} \cup {[path |-> path, pages |-> pages, flags |-> flags]}

\* Document.save refuses a document without pages
CanSave(pages) == Len(pages) >= 1

\* Document.delete_page(pno), pno >= 0 within the document
DeletePage(pages, pno) ==
    [i \in 1..(Len(pages) - 1) |-> IF i <= pno THEN pages[i] ELSE pages[i + 1]]

\* Document.insert_pdf(src, from_page, to_page): the pages from_page..to_page
\* (0-based, clamped to the source; reversed when from_page > to_page)
\* appended to the target.
InsertPdf(target, source, from_page, to_page) ==
    LET n == Len(source)
        fp == Min(Max(from_page, 0), n - 1)
        tp == IF to_page < 0 THEN n - 1 ELSE Min(to_page, n - 1)
    IN  IF n = 0 THEN target
        ELSE IF fp <= tp
             THEN target \o [i \in 1..(tp - fp + 1) |-> source[fp + i]]
             ELSE target \o [i \in 1..(fp - tp + 1) |-> source[fp + 2 - i]]

\* ------------------------------------------------------------ merge_pdfs
MergeInsertBefore(doc, source) == InsertPdf(source, doc, -1, -1)

\* doc.insert_pdf(src): the whole source appended
MergeInsert(doc, source) == InsertPdf(doc, source, -1, -1)

RECURSIVE MergeLoop(_, _, _)
MergeLoop(doc, counts, j) ==
    IF j > Len(counts) THEN doc
    ELSE MergeLoop(MergeInsert(doc, MkDoc(j, counts[j], "upright")), counts, j + 1)

\* input_pdfs is given by the page counts of the listed files
merge_pdfs(input_pdfs) ==
    LET doc == MergeLoop(<<>>, input_pdfs, 1)
    IN  IF CanSave(doc) THEN Ok(DiskWrite({}, OutPath, doc, DefaultFlags), <<>>)
        ELSE Raised({}, "cannot save with zero pages")

\* ---------------------------------------------------------- delete_pages
\* first invalid entry of the validation loop, 0 if none
RECURSIVE FirstInvalid(_, _, _)
FirstInvalid(nums, total, i) ==
    IF i > Len(nums) THEN 0
    ELSE IF nums[i] < 0 \/ nums[i] >= total THEN i
    ELSE FirstInvalid(nums, total, i + 1)

\* the deletion loop; stops with "bad" when the library rejects the index
RECURSIVE DeleteLoop(_, _, _)
DeleteLoop(doc, nums, i) ==
    IF i > Len(nums) THEN [bad |-> FALSE, pages |-> doc]
    ELSE IF nums[i] >= Len(doc) THEN [bad |-> TRUE, pages |-> doc]
    ELSE DeleteLoop(DeletePage(doc, nums[i]), nums, i + 1)

delete_pages(input, pages_to_delete) ==
    LET pages_to_delete_sorted == SortedReverse(ZeroBased(pages_to_delete))
        after == DeleteLoop(input, pages_to_delete_sorted, 1)
    IN  IF FirstInvalid(pages_to_delete_sorted, Len(input), 1) # 0
        THEN Raised({}, "Invalid page number")
        ELSE IF after.bad THEN Raised({}, "bad page number(s)")
        ELSE IF ~CanSave(after.pages) THEN Raised({}, "cannot save with zero pages")
        ELSE Ok(DiskWrite({}, OutPath, after.pages, DefaultFlags), <<>>)

\* ------------------------------------------------------------- split_pdf
SplitPath(kind, n) == [kind |-> kind, num |-> n]

\* One output file of split_pdf: a fresh document holding from_page..to_page.
SplitWrite(d, input, kind, n, from_page, to_page) ==
    DiskWrite(d, SplitPath(kind, n), InsertPdf(<<>>, input, from_page, to_page),
              DefaultFlags)

PagePathZeroBased(page_num) == SplitPath("page", page_num)

\* f"{base_name}_page_{page_num + 1}.pdf"
PagePath(page_num) == SplitPath("page", page_num + 1)

ChunkEndOffByOne(start_page, pages_per_split, total_pages) ==
    Min(start_page + pages_per_split, total_pages - 1)

\* end_page = min(start_page + pages_per_split - 1, total_pages - 1)
ChunkEnd(start_page, pages_per_split, total_pages) ==
    Min(start_page + pages_per_split - 1, total_pages - 1)

\* mode == 'pages': page_nums is range(total_pages)
RECURSIVE SplitPages(_, _, _, _, _)
SplitPages(input, page_nums, i, d, output_files) ==
    IF i > Len(page_nums) THEN Ok(d, output_files)
    ELSE LET page_num == page_nums[i]
         IN  SplitPages(input, page_nums, i + 1,
                        DiskWrite(d, PagePath(page_num),
                                  InsertPdf(<<>>, input, page_num, page_num),
                                  DefaultFlags),
                        Append(output_files, PagePath(page_num)))

\* mode == 'chunks': starts is range(0, total_pages, pages_per_split)
RECURSIVE SplitChunks(_, _, _, _, _, _, _)
SplitChunks(input, pages_per_split, starts, i, chunk_num, d, output_files) ==
    IF i > Len(starts) THEN Ok(d, output_files)
    ELSE LET start_page == starts[i]
             end_page == ChunkEnd(start_page, pages_per_split, Len(input))
         IN  SplitChunks(input, pages_per_split, starts, i + 1, chunk_num + 1,
                         SplitWrite(d, input, "chunk", chunk_num, start_page, end_page),
                         Append(output_files, SplitPath("chunk", chunk_num)))

\* mode == 'range': each range is validated right before it is written
RECURSIVE SplitRanges(_, _, _, _, _)
SplitRanges(input, page_ranges, idx, d, output_files) ==
    IF idx > Len(page_ranges) THEN Ok(d, output_files)
    ELSE LET start == page_ranges[idx][1]
             end == page_ranges[idx][2]
         IN  IF start < 0 \/ end >= Len(input)
             THEN Raised(d, "Invalid range")
             ELSE SplitRanges(input, page_ranges, idx + 1,
                              SplitWrite(d, input, "range", idx, start, end),
                              Append(output_files, SplitPath("range", idx)))

\* page_ranges = None and page_ranges = [] are both the empty sequence:
\* the code only tests `not page_ranges`.
split_pdf(input, mode, pages_per_split, page_ranges) ==
    LET total_pages == Len(input)
    IN  IF mode = "pages"
        THEN SplitPages(input, Range(0, total_pages, 1), 1, {}, <<>>)
        ELSE IF mode = "chunks"
        THEN IF pages_per_split = 0
             THEN Raised({}, "range() arg 3 must not be zero")
             ELSE SplitChunks(input, pages_per_split,
                              Range(0, total_pages, pages_per_split), 1, 1, {}, <<>>)
        ELSE IF mode = "range"
        THEN IF Len(page_ranges) = 0
             THEN Raised({}, "page_ranges must be provided when mode='range'")
             ELSE SplitRanges(input, page_ranges, 1, {}, <<>>)
        ELSE Raised({}, "Invalid mode")

\* ---------------------------------------------------------- rotate_pages
PagesToRotateZeroParity(pages, total_pages) ==
    IF pages.kind = "all" THEN Range(0, total_pages, 1)
    ELSE IF pages.kind = "even"
    THEN SelectSeq(Range(0, total_pages, 1), LAMBDA i : i % 2 = 0)
    ELSE IF pages.kind = "odd"
    THEN SelectSeq(Range(0, total_pages, 1), LAMBDA i : i % 2 = 1)
    ELSE ZeroBased(pages.list)

\* the 0-based pages chosen by the `pages` argument
PagesToRotate(pages, total_pages) ==
    IF pages.kind = "all" THEN Range(0, total_pages, 1)
    ELSE IF pages.kind = "even"
    THEN SelectSeq(Range(0, total_pages, 1), LAMBDA i : (i + 1) % 2 = 0)
    ELSE IF pages.kind = "odd"
    THEN SelectSeq(Range(0, total_pages, 1), LAMBDA i : (i + 1) % 2 = 1)
    ELSE ZeroBased(pages.list)

\* Page.set_rotation stores the angle normalised to 0..359
SetRotation(page, rotation) == [page EXCEPT !.rot = rotation % 360]

RECURSIVE RotateLoop(_, _, _, _)
RotateLoop(doc, pages_to_rotate, rotation, i) ==
    IF i > Len(pages_to_rotate) THEN doc
    ELSE LET page_num == pages_to_rotate[i]
         IN  RotateLoop([doc EXCEPT ![page_num + 1] = SetRotation(@, rotation)],
                        pages_to_rotate, rotation, i + 1)

rotate_pages(input, rotation, pages) ==
    LET total_pages == Len(input)
        pages_to_rotate == PagesToRotate(pages, total_pages)
    IN  IF rotation \notin Rotations
        THEN Raised({}, "Rotation must be 90, 180, 270, -90, -180, or -270 degrees")
        ELSE IF pages.kind = "list" /\ FirstInvalid(pages_to_rotate, total_pages, 1) # 0
        THEN Raised({}, "Invalid page number")
        ELSE Ok(DiskWrite({}, OutPath,
                          RotateLoop(input, pages_to_rotate, rotation, 1),
                          DefaultFlags), <<>>)

\* ---------------------------------------------------------- compress_pdf
CompressionLevels == {"low", "medium", "high"}

compression_settings(level) ==
    IF level = "low"
    THEN [garbage |-> 1, deflate |-> TRUE, deflate_images |-> FALSE,
          deflate_fonts |-> FALSE, clean |-> FALSE]
    ELSE IF level = "medium"
    THEN [garbage |-> 3, deflate |-> TRUE, deflate_images |-> TRUE,
          deflate_fonts |-> TRUE, clean |-> FALSE]
    ELSE [garbage |-> 4, deflate |-> TRUE, deflate_images |-> TRUE,
          deflate_fonts |-> TRUE, clean |-> TRUE]

compress_pdfRejectsHigh(input, compression_level) ==
    IF compression_level \notin {"low", "medium"}
    THEN Raised({}, "compression_level must be 'low', 'medium', or 'high'")
    ELSE Ok(DiskWrite({}, OutPath, input, compression_settings(compression_level)),
            <<>>)

compress_pdf(input, compression_level) ==
    IF compression_level \notin CompressionLevels
    THEN Raised({}, "compression_level must be 'low', 'medium', or 'high'")
    ELSE Ok(DiskWrite({}, OutPath, input, compression_settings(compression_level)),
            <<>>)

\* ------------------------------------------------------------ create_nup
\* inner loop over the columns of one row; leaves at the first src_idx
\* beyond the source (the break)
NupSrcIdxByRow(i, row, col, n_cols) == i + row + (col * n_cols)

NupSrcIdx(i, row, col, n_cols) == i + (row * n_cols) + col

RECURSIVE NupCols(_, _, _, _, _, _)
NupCols(input, n_cols, i, row, col, cells) ==
    LET src_idx == NupSrcIdx(i, row, col, n_cols)
    IN  IF col >= n_cols THEN cells
        ELSE IF src_idx >= Len(input) THEN cells
        ELSE NupCols(input, n_cols, i, row, col + 1,
                     Append(cells, [src_idx |-> src_idx, page |-> input[src_idx + 1],
                                    row |-> row, col |-> col]))

\* loop over the rows of one sheet; the break above does not leave it
RECURSIVE NupRows(_, _, _, _, _, _)
NupRows(input, n_cols, n_rows, i, row, cells) ==
    IF row >= n_rows THEN cells
    ELSE NupRows(input, n_cols, n_rows, i, row + 1,
                 NupCols(input, n_cols, i, row, 0, cells))

\* outer loop: one new sheet per i in range(0, len(src), pages_per_sheet)
RECURSIVE NupSheets(_, _, _, _, _, _, _)
NupSheets(input, n_cols, n_rows, orientation, firsts, k, doc) ==
    IF k > Len(firsts) THEN doc
    ELSE NupSheets(input, n_cols, n_rows, orientation, firsts, k + 1,
                   Append(doc,
                          [w |-> IF orientation = "landscape" THEN A4Long ELSE A4Short,
                           h |-> IF orientation = "landscape" THEN A4Short ELSE A4Long,
                           cells |-> NupRows(input, n_cols, n_rows, firsts[k], 0, <<>>)]))

\* The target rectangle of a cell is a function of (row, col) and of the
\* scale alone, so a cell is recorded by its row and column.
create_nup(input, n_cols, n_rows, orientation) ==
    LET pages_per_sheet == n_cols * n_rows
        doc == NupSheets(input, n_cols, n_rows, orientation,
                         Range(0, Len(input), pages_per_sheet), 1, <<>>)
    IN  IF n_cols = 0 \/ n_rows = 0 THEN Raised({}, "division by zero")
        ELSE IF ~CanSave(doc) THEN Raised({}, "cannot save with zero pages")
        ELSE Ok(DiskWrite({}, OutPath, doc, DefaultFlags), <<>>)

\* ------------------------------------------- word_to_pdf, powerpoint_to_pdf
\* The automation calls made inside the try block, up to the first that
\* fails; `fails` is the set of automation calls that raise.
TryBlock(fails) ==
    IF "Open" \in fails THEN <<"Open">>
    ELSE IF "SaveAs" \in fails THEN <<"Open", "SaveAs">>
    ELSE <<"Open", "SaveAs", "Close">>

QuitOnSuccessOnly(trace) ==
    IF trace[Len(trace)] = "Close" THEN Append(trace, "Quit") ELSE trace

\* the finally clause runs whether or not the try block raised
Finally(trace) == Append(trace, "Quit")

office_to_pdf(input, file_format, fails) ==
    LET tried == TryBlock(fails)
        trace == Finally(<<"Dispatch", "Visible">> \o tried)
        written == IF {"Open", "SaveAs"} \cap fails = {}
                   THEN DiskWrite({}, OutPath, input,
                                  [FileFormat |-> file_format])
                   ELSE {}
    IN  IF "Dispatch" \in fails
        THEN [out |-> Raised({}, "Dispatch failed"), calls |-> <<"Dispatch">>]
        ELSE IF {"Open", "SaveAs", "Close", "Quit"} \cap fails # {}
        THEN [out |-> Raised(written, "com_error"), calls |-> trace]
        ELSE [out |-> Ok(written, <<>>), calls |-> trace]

WordFormatPdf == 17
PowerPointFormatPdf == 32

word_to_pdf(input, fails) == office_to_pdf(input, WordFormatPdf, fails)

powerpoint_to_pdf(input, fails) == office_to_pdf(input, PowerPointFormatPdf, fails)

\* --------------------------------------------------------- add_watermark
\* four times center_y (page_height * 0.25, * 0.75 or / 2)
WatermarkCenterY4(position, page_height) ==
    IF position = "top" THEN page_height
    ELSE IF position = "bottom" THEN 3 * page_height
    ELSE 2 * page_height

Watermark(page, position, rotation) ==
    [page EXCEPT !.overlay =
        Append(@, [kind |-> "watermark", text |-> <<"watermark_text">>,
                   x2 |-> page.w,
                   y4 |-> WatermarkCenterY4(position, page.h),
                   morph |-> rotation # 0])]

add_watermark(input, position, rotation) ==
    Ok(DiskWrite({}, OutPath,
                 [i \in 1..Len(input) |-> Watermark(input[i], position, rotation)],
                 DefaultFlags), <<>>)

\* ------------------------------------------------------ add_page_numbers
NumberMargin == 30

NumberPositions ==
    {"bottom-right", "bottom-center", "bottom-left",
     "top-right", "top-center", "top-left"}

\* twice the anchor point of the text
NumberPoint2(position, page) ==
    [x2 |-> IF position \in {"bottom-right", "top-right"} THEN 2 * (page.w - NumberMargin)
            ELSE IF position \in {"bottom-center", "top-center"} THEN page.w
            ELSE 2 * NumberMargin,
     y2 |-> IF position \in {"bottom-right", "bottom-center", "bottom-left"}
            THEN 2 * (page.h - NumberMargin)
            ELSE 2 * NumberMargin]

\* format_string.format(page=..., total=...), the format string given as
\* its sequence of literal pieces and placeholders
Format(format_string, page, total) ==
    [i \in 1..Len(format_string) |->
        IF format_string[i] = "{page}" THEN ToString(page)
        ELSE IF format_string[i] = "{total}" THEN ToString(total)
        ELSE format_string[i]]

CurrentPageNumByPosition(start_number, idx, page_num) == start_number + page_num

\* current_page_num = start_number + idx: the number follows the position
\* in the selection, not the page's place in the document
CurrentPageNum(start_number, idx, page_num) == start_number + idx

RECURSIVE NumberLoop(_, _, _, _, _, _)
NumberLoop(doc, pages_to_number, position, format_string, start_number, k) ==
    IF k > Len(pages_to_number) THEN [bad |-> FALSE, pages |-> doc]
    ELSE IF position \notin NumberPositions THEN [bad |-> TRUE, pages |-> doc]
    ELSE LET idx == k - 1
             page_num == pages_to_number[k]
             page == doc[page_num + 1]
             current_page_num == CurrentPageNum(start_number, idx, page_num)
             page_text == Format(format_string, current_page_num, Len(pages_to_number))
             point == NumberPoint2(position, page)
         IN  NumberLoop([doc EXCEPT ![page_num + 1].overlay =
                            Append(@, [kind |-> "number", text |-> page_text,
                                       x2 |-> point.x2, y4 |-> 2 * point.y2,
                                       morph |-> FALSE])],
                        pages_to_number, position, format_string, start_number, k + 1)

add_page_numbers(input, position, format_string, start_number, pages) ==
    LET total_pages == Len(input)
        pages_to_number == IF pages.kind = "all" THEN Range(0, total_pages, 1)
                           ELSE ZeroBased(pages.list)
        after == NumberLoop(input, pages_to_number, position, format_string,
                            start_number, 1)
    IN  IF pages.kind # "all" /\ FirstInvalid(pages_to_number, total_pages, 1) # 0
        THEN Raised({}, "Invalid page number")
        ELSE IF after.bad THEN Raised({}, "Invalid position")
        ELSE Ok(DiskWrite({}, OutPath, after.pages, DefaultFlags), <<>>)

\* ------------------------------------------------------------- the calls
\* One call is made on the input document; `out` is its outcome.
Finish(name, a, out) ==
    /\ op' = name
    /\ args' = a
    /\ result' = out.status
    /\ error' = out.error
    /\ disk' = out.disk
    /\ returned' = out.ret
    /\ UNCHANGED <<src, calls>>

PageLists == SeqUpTo(0..(MaxPages + 1), MaxList)

MergePdfs ==
    /\ op = "none"
    /\ \E input_pdfs \in SeqUpTo(1..MaxPages, MaxInputs) :
           Finish("merge_pdfs", [input_pdfs |-> input_pdfs], merge_pdfs(input_pdfs))

DeletePages ==
    /\ op = "none"
    /\ \E pages_to_delete \in PageLists :
           Finish("delete_pages", [pages_to_delete |-> pages_to_delete],
                  delete_pages(src, pages_to_delete))

RangePairs == (-1..MaxRangeIdx) \X (-1..MaxRangeIdx)

SplitPdf ==
    \/ /\ op = "none"
       /\ \E mode \in {"pages", "parts"} :
             Finish("split_pdf",
                    [mode |-> mode, pages_per_split |-> 1, page_ranges |-> <<>>],
                    split_pdf(src, mode, 1, <<>>))
    \/ /\ op = "none"
       /\ \E pages_per_split \in 0..MaxChunk :
             Finish("split_pdf",
                    [mode |-> "chunks", pages_per_split |-> pages_per_split,
                     page_ranges |-> <<>>],
                    split_pdf(src, "chunks", pages_per_split, <<>>))
    \/ /\ op = "none"
       /\ \E page_ranges \in SeqUpTo(RangePairs, MaxRanges) :
             Finish("split_pdf",
                    [mode |-> "range", pages_per_split |-> 1,
                     page_ranges |-> page_ranges],
                    split_pdf(src, "range", 1, page_ranges))

PageSelections ==
    {[kind |-> k, list |-> <<>>] : k \in {"all", "even", "odd"}}
        \cup {[kind |-> "list", list |-> l] : l \in PageLists}

RotatePages ==
    /\ op = "none"
    /\ \E rotation \in Rotations \cup {45}, pages \in PageSelections :
           Finish("rotate_pages", [rotation |-> rotation, pages |-> pages],
                  rotate_pages(src, rotation, pages))

CompressPdf ==
    /\ op = "none"
    /\ \E compression_level \in CompressionLevels \cup {"max"} :
           Finish("compress_pdf", [compression_level |-> compression_level],
                  compress_pdf(src, compression_level))

CreateNup ==
    /\ op = "none"
    /\ \E n_cols \in 0..MaxGrid, n_rows \in 0..MaxGrid,
          orientation \in {"portrait", "landscape"} :
           Finish("create_nup",
                  [n_cols |-> n_cols, n_rows |-> n_rows, orientation |-> orientation],
                  create_nup(src, n_cols, n_rows, orientation))

AutomationCalls == {"Dispatch", "Open", "SaveAs", "Close", "Quit"}

Convert(name, a, conv) ==
    /\ op' = name
    /\ args' = a
    /\ result' = conv.out.status
    /\ error' = conv.out.error
    /\ disk' = conv.out.disk
    /\ returned' = conv.out.ret
    /\ calls' = conv.calls
    /\ UNCHANGED src

WordToPdf ==
    /\ op = "none"
    /\ \E fails \in SUBSET AutomationCalls :
           Convert("word_to_pdf", [fails |-> fails], word_to_pdf(src, fails))

PowerpointToPdf ==
    /\ op = "none"
    /\ \E fails \in SUBSET AutomationCalls :
           Convert("powerpoint_to_pdf", [fails |-> fails], powerpoint_to_pdf(src, fails))

AddWatermark ==
    /\ op = "none"
    /\ \E position \in {"center", "top", "bottom", "left"}, rotation \in {0, 45} :
           Finish("add_watermark", [position |-> position, rotation |-> rotation],
                  add_watermark(src, position, rotation))

NumberFormats == {<<"{page}">>, <<"Page ", "{page}", " of ", "{total}">>}

NumberSelections == {p \in PageSelections : p.kind \in {"all", "list"}}

AddPageNumbers ==
    /\ op = "none"
    /\ \E position \in NumberPositions \cup {"middle"},
          format_string \in NumberFormats,
          start_number \in {1, 3},
          pages \in NumberSelections :
           Finish("add_page_numbers",
                  [position |-> position, format_string |-> format_string,
                   start_number |-> start_number, pages |-> pages],
                  add_page_numbers(src, position, format_string, start_number, pages))

Init ==
    /\ op = "none"
    /\ args = [none |-> TRUE]
    /\ src \in Docs
    /\ result = "none"
    /\ error = ""
    /\ disk = {}
    /\ returned = <<>>
    /\ calls = <<>>

Next ==
    \/ MergePdfs
    \/ DeletePages
    \/ SplitPdf
    \/ RotatePages
    \/ CompressPdf
    \/ CreateNup
    \/ WordToPdf
    \/ PowerpointToPdf
    \/ AddWatermark
    \/ AddPageNumbers

Spec == Init /\ [][Next]_vars

\* ================================================================ claims
OutputFile == CHOOSE f \in disk : f.path = OutPath
Saved == OutputFile.pages
FileAt(path) == CHOOSE f \in disk : f.path = path

\* every entry of a 1-based page list names a page of a k-page document
ListedValid(l, k) == \A i \in 1..Len(l) : l[i] \in 1..k
Listed(l, n) == \E i \in 1..Len(l) : l[i] = n

\* the pages of the input whose number is not listed, in their order
Unlisted(input, l) == SelectSeq(input, LAMBDA pg : ~Listed(l, pg.num))

\* C1: whenever delete_pages is given valid 1-based page numbers (any
\* order, repeats allowed), the saved document is exactly the original
\* pages whose numbers are not listed, in their original order.
C1_DeleteKeepsUnlisted ==
    (op = "delete_pages" /\ ListedValid(args.pages_to_delete, Len(src))
        /\ result = "ok")
    => Saved = Unlisted(src, args.pages_to_delete)

\* the errors raised by the functions' own parameter checks
ParameterErrors ==
    {"Invalid range", "Invalid mode",
     "page_ranges must be provided when mode='range'",
     "Invalid page number", "Invalid position",
     "Rotation must be 90, 180, 270, -90, -180, or -270 degrees",
     "compression_level must be 'low', 'medium', or 'high'"}

\* C2: when split_pdf, delete_pages, rotate_pages, compress_pdf or
\* add_page_numbers raises because of an invalid parameter, the call has
\* written no file.
C2_NoFileWrittenOnRaise ==
    (op \in {"split_pdf", "delete_pages", "rotate_pages", "compress_pdf",
             "add_page_numbers"}
        /\ result = "raised" /\ error \in ParameterErrors)
    => disk = {}

\* the call's arguments contain one of the invalid parameters of C3
InvalidParameter ==
    \/ /\ op = "split_pdf"
       /\ \/ args.mode \notin {"pages", "chunks", "range"}
          \/ args.mode = "range" /\ args.page_ranges = <<>>
          \/ /\ args.mode = "range"
             /\ \E i \in 1..Len(args.page_ranges) :
                   \/ args.page_ranges[i][1] \notin 0..(Len(src) - 1)
                   \/ args.page_ranges[i][2] \notin 0..(Len(src) - 1)
    \/ op = "delete_pages" /\ ~ListedValid(args.pages_to_delete, Len(src))
    \/ /\ op \in {"rotate_pages", "add_page_numbers"}
       /\ args.pages.kind = "list"
       /\ ~ListedValid(args.pages.list, Len(src))
    \/ op = "add_page_numbers" /\ args.position \notin NumberPositions
    \/ op = "add_watermark" /\ args.position \notin {"center", "top", "bottom"}

\* C3: every call that passes an invalid parameter ends by raising.
C3_InvalidParameterRaises == InvalidParameter => result = "raised"

\* number of pages of the inputs before input j
RECURSIVE PagesBefore(_, _)
PagesBefore(counts, j) ==
    IF j <= 1 THEN 0 ELSE PagesBefore(counts, j - 1) + counts[j - 1]

\* C4: merge_pdfs saves one document whose page count is the sum of the
\* inputs' page counts and whose pages are those of the first input in
\* order, then those of the second, and so on.
C4_MergeConcatenates ==
    (op = "merge_pdfs" /\ Len(args.input_pdfs) >= 1)
    => /\ result = "ok"
       /\ disk = {OutputFile}
       /\ Len(Saved) = PagesBefore(args.input_pdfs, Len(args.input_pdfs) + 1)
       /\ \A j \in 1..Len(args.input_pdfs) : \A i \in 1..args.input_pdfs[j] :
             LET pg == Saved[PagesBefore(args.input_pdfs, j) + i]
             IN  pg.doc = j /\ pg.num = i

C4_Witness ==
    /\ op = "merge_pdfs"
    /\ result = "ok"
    /\ args.input_pdfs = <<2, 1, 3>>
    /\ Len(Saved) = 6
    /\ Saved[3].doc = 2

\* ceil(k / c) for c >= 1
CeilDiv(k, c) == (k + c - 1) \div c

\* the files of a split, by their number, concatenated in number order
RECURSIVE Concatenated(_, _, _)
Concatenated(kind, n, upto) ==
    IF n > upto THEN <<>>
    ELSE FileAt(SplitPath(kind, n)).pages \o Concatenated(kind, n + 1, upto)

\* C5: split_pdf in 'chunks' mode with chunk size C >= 1 on a K-page
\* document writes exactly ceil(K/C) files; every file but the last has C
\* pages, the last has K - C*(ceil(K/C)-1) pages, and the files concatenated
\* in chunk-number order are pages 1..K, none skipped or repeated.
C5_ChunksPartition ==
    (op = "split_pdf" /\ args.mode = "chunks" /\ args.pages_per_split >= 1)
    => LET K == Len(src)
           C == args.pages_per_split
           N == CeilDiv(K, C)
       IN  /\ result = "ok"
           /\ Cardinality(disk) = N
           /\ {f.path : f \in disk} = {SplitPath("chunk", n) : n \in 1..N}
           /\ \A n \in 1..(N - 1) : Len(FileAt(SplitPath("chunk", n)).pages) = C
           /\ Len(FileAt(SplitPath("chunk", N)).pages) = K - C * (N - 1)
           /\ Concatenated("chunk", 1, N) = src

C5_Witness ==
    /\ op = "split_pdf"
    /\ args.mode = "chunks"
    /\ args.pages_per_split = 2
    /\ Len(src) = 5
    /\ result = "ok"
    /\ Cardinality(disk) = 3
    /\ Len(FileAt(SplitPath("chunk", 3)).pages) = 1

\* C6: split_pdf in 'pages' mode on a K-page document writes exactly K
\* files, the i-th (suffix _page_i, 1-based) holding exactly original page
\* i, and returns the K paths in page order.
C6_PagesOnePerFile ==
    (op = "split_pdf" /\ args.mode = "pages")
    => /\ result = "ok"
       /\ Cardinality(disk) = Len(src)
       /\ \A i \in 1..Len(src) :
             /\ \E f \in disk : f.path = [kind |-> "page", num |-> i]
             /\ FileAt([kind |-> "page", num |-> i]).pages = <<src[i]>>
       /\ returned = [i \in 1..Len(src) |-> [kind |-> "page", num |-> i]]

C6_Witness ==
    /\ op = "split_pdf"
    /\ args.mode = "pages"
    /\ Len(src) = 4
    /\ result = "ok"
    /\ Cardinality(disk) = 4
    /\ Len(returned) = 4

\* the 1-based page n is selected by the `pages` argument of rotate_pages
Selected(pages, n) ==
    \/ pages.kind = "all"
    \/ pages.kind = "even" /\ n % 2 = 0
    \/ pages.kind = "odd" /\ n % 2 = 1
    \/ pages.kind = "list" /\ Listed(pages.list, n)

\* C7: rotate_pages sets the rotation of the selected pages only ('all':
\* every page, 'even' / 'odd': the pages with even / odd 1-based number, a
\* list: the listed pages) and leaves every other page as it was.
C7_RotateOnlySelected ==
    (op = "rotate_pages" /\ args.rotation \in Rotations
        /\ (args.pages.kind = "list" => ListedValid(args.pages.list, Len(src))))
    => /\ result = "ok"
       /\ Len(Saved) = Len(src)
       /\ \A n \in 1..Len(src) :
             IF Selected(args.pages, n)
             THEN /\ Saved[n].rot \in {args.rotation, args.rotation + 360}
                  /\ [Saved[n] EXCEPT !.rot = src[n].rot] = src[n]
             ELSE Saved[n] = src[n]

C7_Witness ==
    /\ op = "rotate_pages"
    /\ args.pages.kind = "even"
    /\ args.rotation = 180
    /\ Len(src) = 4
    /\ result = "ok"
    /\ Saved[2].rot = 180 /\ src[2].rot # 180
    /\ Saved[4].rot = 180 /\ src[4].rot # 180
    /\ Saved[1] = src[1] /\ src[1].rot # 180
    /\ Saved[3] = src[3] /\ src[3].rot # 180

\* number of Quit calls in an automation trace
RECURSIVE Quits(_)
Quits(trace) ==
    IF trace = <<>> THEN 0
    ELSE (IF Head(trace) = "Quit" THEN 1 ELSE 0) + Quits(Tail(trace))

C9_CompressKeepsPages ==
    (op = "compress_pdf" /\ args.compression_level \in {"low", "medium", "high"})
    => /\ result = "ok"
       /\ disk = {OutputFile}
       /\ Len(Saved) = Len(src)
       /\ \A n \in 1..Len(src) :
             /\ Saved[n].num = n
             /\ Saved[n].w = src[n].w /\ Saved[n].h = src[n].h
             /\ Saved[n] = src[n]
       /\ OutputFile.flags.garbage =
             (IF args.compression_level = "low" THEN 1
              ELSE IF args.compression_level = "medium" THEN 3 ELSE 4)
       /\ OutputFile.flags.clean = (args.compression_level = "high")

C9_Witness ==
    /\ op = "compress_pdf"
    /\ args.compression_level = "high"
    /\ result = "ok"
    /\ Len(src) = 3
    /\ Saved = src
    /\ OutputFile.flags.clean

\* the cells of sheet s (1-based) of the saved n-up document
CellsOf(s) == {Saved[s].cells[c] : c \in 1..Len(Saved[s].cells)}

\* C10: create_nup on a K-page source with n_cols, n_rows >= 1 creates
\* exactly ceil(K/(n_cols*n_rows)) sheets and places every source page
\* exactly once: page i (0-based) on sheet i div (n_cols*n_rows), at row
\* (i mod (n_cols*n_rows)) div n_cols and column i mod n_cols; no cell
\* receives an index >= K.
C10_NupPlacesEachPageOnce ==
    (op = "create_nup" /\ args.n_cols >= 1 /\ args.n_rows >= 1)
    => LET K == Len(src)
           per == args.n_cols * args.n_rows
       IN  /\ result = "ok"
           /\ Len(Saved) = CeilDiv(K, per)
           /\ \A i \in 0..(K - 1) :
                 \E c \in CellsOf((i \div per) + 1) :
                    /\ c.src_idx = i
                    /\ c.page = src[i + 1]
                    /\ c.row = (i % per) \div args.n_cols
                    /\ c.col = i % args.n_cols
           /\ \A s \in 1..Len(Saved) :
                 /\ Len(Saved[s].cells) = Cardinality(CellsOf(s))
                 /\ \A c \in CellsOf(s) :
                       /\ c.src_idx < K
                       /\ s = (c.src_idx \div per) + 1
                       /\ \A e \in CellsOf(s) : e.src_idx = c.src_idx => e = c

C10_Witness ==
    /\ op = "create_nup"
    /\ args.n_cols = 2 /\ args.n_rows = 2
    /\ Len(src) = 5
    /\ result = "ok"
    /\ Len(Saved) = 2
    /\ Len(Saved[2].cells) = 1
    /\ Saved[2].cells[1].src_idx = 4

\* the 1-based page numbers selected by the `pages` argument of
\* add_page_numbers, in the order they are stamped
NumberedPages(pages, k) ==
    IF pages.kind = "all" THEN [i \in 1..k |-> i] ELSE pages.list

\* the positions of the selection that name page n, in increasing order
PositionsOf(sel, n) ==
    SelectSeq([i \in 1..Len(sel) |-> i], LAMBDA i : sel[i] = n)

\* where the {page} placeholder stands in a format string
IndexOfPage(fmt) == CHOOSE j \in 1..Len(fmt) : fmt[j] = "{page}"

\* the text stamped for format string fmt shows page number p and total t
Shows(text, fmt, p, t) ==
    /\ Len(text) = Len(fmt)
    /\ \A j \in 1..Len(fmt) :
          text[j] = (IF fmt[j] = "{page}" THEN ToString(p)
                     ELSE IF fmt[j] = "{total}" THEN ToString(t)
                     ELSE fmt[j])

\* C11: add_page_numbers stamps the page at position idx (0-based) of the
\* selected page list with start_number + idx, in list order, whatever the
\* page's place in the document, and replaces {total} by the number of
\* selected pages; unselected pages get no stamp, and a page listed twice
\* is stamped twice with two different numbers.
C11_NumbersFollowSelection ==
    (op = "add_page_numbers" /\ args.position \in NumberPositions
        /\ (args.pages.kind = "list" => ListedValid(args.pages.list, Len(src))))
    => LET sel == NumberedPages(args.pages, Len(src))
       IN  /\ result = "ok"
           /\ Len(Saved) = Len(src)
           /\ \A n \in 1..Len(src) :
                 LET at == PositionsOf(sel, n)
                     stamps == Saved[n].overlay
                 IN  /\ Len(stamps) = Len(at)
                     /\ [Saved[n] EXCEPT !.overlay = <<>>] = src[n]
                     /\ \A m \in 1..Len(at) :
                           /\ stamps[m].kind = "number"
                           /\ Shows(stamps[m].text, args.format_string,
                                    args.start_number + (at[m] - 1), Len(sel))
                     /\ \A m1, m2 \in 1..Len(at) :
                           m1 # m2 => stamps[m1].text[IndexOfPage(args.format_string)]
                                        # stamps[m2].text[IndexOfPage(args.format_string)]

C11_Witness ==
    /\ op = "add_page_numbers"
    /\ result = "ok"
    /\ Len(src) = 4
    /\ args.pages = [kind |-> "list", list |-> <<3, 3>>]
    /\ args.start_number = 3
    /\ args.format_string = <<"Page ", "{page}", " of ", "{total}">>
    /\ Len(Saved[3].overlay) = 2
    /\ Saved[3].overlay[1].text = <<"Page ", "3", " of ", "2">>
    /\ Saved[3].overlay[2].text = <<"Page ", "4", " of ", "2">>
    /\ Saved[1].overlay = <<>>

====
